---- MODULE Spec2Model ----
(***************************************************************************)
(* A model of the StreamingZone server (server.js) and of its browser      *)
(* script (public/js/main.js, two variants).                               *)
(*                                                                         *)
(* Strings are sequences of one-character strings, so that slugify, the    *)
(* cookie regular expression and Express' path matching are computed       *)
(* character by character.  An optional value (undefined / null in the     *)
(* code) is a sequence of length at most one: None or Some(v).             *)
(***************************************************************************)
EXTENDS Integers, Sequences, FiniteSets, TLC

VARIABLES
    req,        \* the HTTP request being served (or the last one served)
    resp,       \* the response to req, None while unanswered
    chain,      \* the URLs the redirect-following client has requested so far
    jar,        \* the client's cookie jar: the lang_preference cookie, if any
    upstream,   \* what the metadata API holds for each locale, once asked
    genreCache, \* server.js: const genreCache = { movie: null, tv: null }
    calls,      \* the getGenres calls of concurrent requests, by caller
    tmdbCalls,  \* the tmdbGet calls the handler of req made, with what each returned
    script,     \* which main.js the page runs: "auto" (with setupAutoLoad) or "manual"
    btn,        \* one .load-more control: its data-* values, disabled property and label
    skeleton,   \* whether the control's skeleton grid is displayed
    grid,       \* the pages whose cards were appended to the control's grid, in order
    xhrs,       \* the section-API requests in flight, each with what its callbacks captured
    hist,       \* history of the control, for the properties
    runtime,    \* the Express major version and NODE_ENV the server runs with
    fault,      \* where the handler of req met an error, once it did
    arg,        \* the argument a helper function was applied to
    out         \* what the helper returned

vars == <<req, resp, chain, jar, upstream, genreCache, calls, tmdbCalls,
          script, btn, skeleton, grid, xhrs, hist, runtime, fault, arg, out>>

\* the variables each specification leaves alone
redirectVars == <<req, resp, chain, jar, upstream>>
genreVars == <<calls>>
routeVars == <<tmdbCalls>>
clientVars == <<script, btn, skeleton, grid, xhrs, hist>>
faultVars == <<runtime, fault>>
helperVars == <<arg, out>>

\* no handler met an error
NoFault == runtime = << >> /\ fault = << >>

\* no helper is applied on its own
NoHelper == arg = << >> /\ out = << >>

\* no page is open
NoClient ==
    /\ script = "" /\ btn = << >> /\ skeleton = FALSE
    /\ grid = << >> /\ xhrs = << >> /\ hist = << >>

-----------------------------------------------------------------------------
(* Bounds *)

MaxTitleLen == 2     \* longest upstream title / genre name
MaxSlugLen == 2      \* longest slug segment a client asks for
MaxChain == 3        \* requests a redirect-following client makes at most
MaxCalls == 3        \* getGenres calls made in one run
MaxCookies == 2      \* cookies in one Cookie header
MaxResults == 2      \* longest results list of an upstream page

-----------------------------------------------------------------------------
(* Optional values and strings *)

None == << >>
Some(v) == <<v>>
Range(s) == {s[i] : i \in 1..Len(s)}

RECURSIVE StrsOfLen(_, _)
StrsOfLen(chars, n) ==
    IF n = 0 THEN {<< >>}
    ELSE {<<c>> \o s : c \in chars, s \in StrsOfLen(chars, n - 1)}

StrsUpTo(chars, n) == UNION {StrsOfLen(chars, k) : k \in 0..n}

LowerAlpha == <<"a","b","c","d","e","f","g","h","i","j","k","l","m",
                "n","o","p","q","r","s","t","u","v","w","x","y","z">>
UpperAlpha == <<"A","B","C","D","E","F","G","H","I","J","K","L","M",
                "N","O","P","Q","R","S","T","U","V","W","X","Y","Z">>
DigitChars == {"0","1","2","3","4","5","6","7","8","9"}

\* String.prototype.toLowerCase on one character (ASCII letters; the other
\* characters of the model have no lower-case form in [a-z0-9]).
ToLowerChar(c) ==
    IF \E i \in 1..26 : UpperAlpha[i] = c
    THEN LowerAlpha[CHOOSE i \in 1..26 : UpperAlpha[i] = c]
    ELSE c

ToLowerCase(s) == [i \in 1..Len(s) |-> ToLowerChar(s[i])]

\* the character class [a-z0-9]
IsSlugAlnum(c) == c \in Range(LowerAlpha) \cup DigitChars

\* the character class \w = [A-Za-z0-9_]
IsWordChar(c) == c \in Range(LowerAlpha) \cup Range(UpperAlpha) \cup DigitChars \cup {"_"}

StartsWith(s, p) == Len(s) >= Len(p) /\ SubSeq(s, 1, Len(p)) = p

\* .replace(/[^a-z0-9]+/g, '-'): every maximal run of characters outside
\* [a-z0-9] becomes one dash.
RECURSIVE CollapseNonAlnum(_)
CollapseNonAlnum(s) ==
    IF s = << >> THEN << >>
    ELSE IF IsSlugAlnum(s[1]) THEN <<s[1]>> \o CollapseNonAlnum(Tail(s))
    ELSE IF Len(s) >= 2 /\ ~IsSlugAlnum(s[2]) THEN CollapseNonAlnum(Tail(s))
    ELSE <<"-">> \o CollapseNonAlnum(Tail(s))

\* .replace(/^-+|-+$/g, ''): leading and trailing dashes are removed.
RECURSIVE TrimDashes(_)
TrimDashes(s) ==
    IF s = << >> THEN << >>
    ELSE IF s[1] = "-" THEN TrimDashes(Tail(s))
    ELSE IF s[Len(s)] = "-" THEN TrimDashes(SubSeq(s, 1, Len(s) - 1))
    ELSE s

\* a slugify that leaves out the second replace
slugifyUntrimmed(str) == CollapseNonAlnum(ToLowerCase(str))

slugify(str) == TrimDashes(CollapseNonAlnum(ToLowerCase(str)))

-----------------------------------------------------------------------------
(* Locale resolver: getLangFromCookie, getRequestLang *)

En == <<"e","n">>
Id == <<"i","d">>
SUPPORTED_LANGS == {En, Id}
DEFAULT_LANG == En

\* the longest prefix of s made of \w characters: what (\w+) captures
RECURSIVE WordPrefix(_)
WordPrefix(s) ==
    IF s = << >> \/ ~IsWordChar(s[1]) THEN << >>
    ELSE <<s[1]>> \o WordPrefix(Tail(s))

\* cookie.match(/(?:^|;\s*)lang_preference=(\w+)/) on the Cookie header
\* "n1=v1; n2=v2; ...", given as its sequence of [name, value] pairs: the
\* leftmost pair named lang_preference whose value starts with a \w
\* character matches, and the capture is the \w prefix of that value.
RECURSIVE getLangFromCookie(_)
getLangFromCookie(cookies) ==
    IF cookies = << >> THEN None
    ELSE IF cookies[1].name = "lang_preference" /\ WordPrefix(cookies[1].value) # << >>
         THEN Some(WordPrefix(cookies[1].value))
         ELSE getLangFromCookie(Tail(cookies))

\* getRequestLang with the cookie consulted before the query parameter
getRequestLangCookieFirst(r) ==
    LET cookieLang == getLangFromCookie(r.cookies)
    IN  IF cookieLang # None /\ cookieLang[1] \in SUPPORTED_LANGS
        THEN [lang |-> cookieLang[1], setCookie |-> None]
        ELSE IF r.qlang # None /\ r.qlang[1] \in SUPPORTED_LANGS
        THEN [lang |-> r.qlang[1],
              setCookie |-> Some([name |-> "lang_preference", value |-> r.qlang[1],
                                  maxAge |-> 31536000, sameSite |-> "Lax"])]
        ELSE IF StartsWith(ToLowerCase(IF r.accept = None THEN << >> ELSE r.accept[1]), Id)
        THEN [lang |-> Id, setCookie |-> None]
        ELSE [lang |-> DEFAULT_LANG, setCookie |-> None]

\* getRequestLang(req, res): the resolved locale and the Set-Cookie header
\* it writes on res (None when it writes none).  r.qlang is req.query.lang,
\* r.accept the Accept-Language header, both None when absent.
getRequestLang(r) ==
    LET lang == r.qlang
        cookieLang == getLangFromCookie(r.cookies)
        accept == ToLowerCase(IF r.accept = None THEN << >> ELSE r.accept[1])
    IN  IF lang # None /\ lang[1] # << >> /\ lang[1] \in SUPPORTED_LANGS
        THEN [lang |-> lang[1],
              setCookie |-> Some([name |-> "lang_preference", value |-> lang[1],
                                  maxAge |-> 31536000, sameSite |-> "Lax"])]
        ELSE IF cookieLang # None /\ cookieLang[1] \in SUPPORTED_LANGS
        THEN [lang |-> cookieLang[1], setCookie |-> None]
        ELSE IF StartsWith(accept, Id)
        THEN [lang |-> Id, setCookie |-> None]
        ELSE [lang |-> DEFAULT_LANG, setCookie |-> None]

-----------------------------------------------------------------------------
(* Express routing of '/movie/:id/:slug?', '/tv/:id/:slug?' and
   '/genre/:mediaType(movie|tv)/:genreId/:slug?'.  A request's rest is the
   text of its path after the id segment. *)

StripTrailingSlash(rest) ==
    IF rest # << >> /\ rest[Len(rest)] = "/"
    THEN SubSeq(rest, 1, Len(rest) - 1)
    ELSE rest

\* the route's regular expression ends in (?:\/([^\/]+?))?\/?$
RouteMatches(rest) ==
    LET r == StripTrailingSlash(rest)
    IN  r = << >> \/ (Len(r) >= 2 /\ r[1] = "/" /\ "/" \notin Range(Tail(r)))

\* req.params.slug
SlugParam(rest) ==
    LET r == StripTrailingSlash(rest)
    IN  IF r = << >> THEN None ELSE Some(Tail(r))

\* JavaScript's !x for an optional string
Falsy(x) == x = None \/ x[1] = << >>

\* a || b for strings, the empty string standing for a missing field too
JsOr(a, b) == IF a # << >> THEN a ELSE b

TitleMovie == <<"M","o","v","i","e">>
TitleTvShow == <<"T","V"," ","S","h","o","w">>
NameGenre == <<"G","e","n","r","e">>

\* const title = movie.title || movie.name || 'Movie'
MovieTitle(movie) == JsOr(JsOr(movie.title, movie.name), TitleMovie)

\* const title = tv.name || tv.original_name || 'TV Show'
TvTitle(tv) == JsOr(JsOr(tv.name, tv.original_name), TitleTvShow)

\* the Location `/movie/${id}/${slug}` (resp. /tv/...), as the request a
\* client makes for it
DetailPath(route, id, slug) ==
    [route |-> route, mediaType |-> "", id |-> id,
     rest |-> <<"/">> \o slug, page |-> None]

\* the Location `/genre/${mediaType}/${genreId}/${genreSlug}?page=${pageParam}`
GenrePath(mediaType, genreId, genreSlug, pageParam) ==
    [route |-> "genre", mediaType |-> mediaType, id |-> genreId,
     rest |-> <<"/">> \o genreSlug, page |-> Some(pageParam)]

Response(status, location, setCookie, view, body) ==
    [status |-> status, location |-> location, setCookie |-> setCookie,
     view |-> view, body |-> body]

\* the body of app.get('/movie/:id/:slug?') after getRequestLang, given what
\* tmdbGet returned (None for null)
MovieResponse(r, lc, movie) ==
    IF movie = None
    THEN Response(404, None, lc.setCookie, "Movie not found", << >>)
    ELSE LET title == MovieTitle(movie[1])
             slug == slugify(title)
         IN  IF Falsy(SlugParam(r.rest)) \/ SlugParam(r.rest)[1] # slug
             THEN Response(301, Some(DetailPath("movie", r.id, slug)),
                           lc.setCookie, "", << >>)
             ELSE Response(200, None, lc.setCookie, "detail",
                           <<DetailPath("movie", r.id, slug)>>)

\* the body of app.get('/tv/:id/:slug?')
TvResponse(r, lc, tv) ==
    IF tv = None
    THEN Response(404, None, lc.setCookie, "TV show not found", << >>)
    ELSE LET title == TvTitle(tv[1])
             slug == slugify(title)
         IN  IF Falsy(SlugParam(r.rest)) \/ SlugParam(r.rest)[1] # slug
             THEN Response(301, Some(DetailPath("tv", r.id, slug)),
                           lc.setCookie, "", << >>)
             ELSE Response(200, None, lc.setCookie, "detail",
                           <<DetailPath("tv", r.id, slug)>>)

-----------------------------------------------------------------------------
(* Genre cache and genre route *)

MediaTypes == {"movie", "tv"}

DigitSeq == <<"0","1","2","3","4","5","6","7","8","9">>

\* String(n) for a natural number
RECURSIVE JsString(_)
JsString(n) ==
    IF n < 10 THEN <<DigitSeq[n + 1]>>
    ELSE JsString(n \div 10) \o <<DigitSeq[(n % 10) + 1]>>

\* a cache test that treats an empty list as a miss
CacheHitNonEmpty(cache, mediaType) ==
    cache[mediaType] # None /\ cache[mediaType][1] # << >>

\* if (genreCache[mediaType]) return genreCache[mediaType];
\* an array, the empty one included, is truthy
CacheHit(cache, mediaType) == cache[mediaType] # None

\* data?.genres || []   (data is None for null, data.genres None when missing)
GenresOrEmpty(data) ==
    IF data = None \/ data[1].genres = None THEN << >> ELSE data[1].genres[1]

\* list.find(g => String(g.id) === String(genreId)); g ? g.name : 'Genre'
RECURSIVE findGenreName(_, _, _)
findGenreName(mediaType, genreId, genresList) ==
    IF genresList = << >> THEN NameGenre
    ELSE IF JsString(genresList[1].id) = genreId THEN genresList[1].name
    ELSE findGenreName(mediaType, genreId, Tail(genresList))

\* Number(req.query.page || 1)
PageParam(r) == IF r.qpage = None THEN 1 ELSE r.qpage[1]

\* data?.results || []
ResultsOrEmpty(data) ==
    IF data = None \/ data[1].results = None THEN << >> ELSE data[1].results[1]

\* the slug test of the genre route: TRUE when the handler redirects
GenreRedirects(r, genresList) ==
    LET genreSlug == slugify(findGenreName(r.mediaType, r.id, genresList))
    IN  Falsy(SlugParam(r.rest)) \/ SlugParam(r.rest)[1] # genreSlug

\* the body of app.get('/genre/:mediaType(movie|tv)/:genreId/:slug?') after
\* getGenres returned genresList; data is what the discover call returned
\* (it is only made when the handler does not redirect)
GenreResponse(r, lc, genresList, data) ==
    LET genreName == findGenreName(r.mediaType, r.id, genresList)
        genreSlug == slugify(genreName)
    IN  IF GenreRedirects(r, genresList)
        THEN Response(301, Some(GenrePath(r.mediaType, r.id, genreSlug, PageParam(r))),
                      lc.setCookie, "", << >>)
        ELSE Response(200, None, lc.setCookie, "listing", ResultsOrEmpty(data))

-----------------------------------------------------------------------------
(* Inputs *)

\* "!" stands for any character that is not an ASCII letter or digit after
\* lower-casing (punctuation, CJK, Cyrillic, ...)
TitleChars == {"a", "B", " ", "!"}
Titles == StrsUpTo(TitleChars, MaxTitleLen)

SlugChars == {"a", "b", "-"}
ReqSlugs == StrsUpTo(SlugChars, MaxSlugLen) \ {<< >>}

\* the request paths the three routes match, by their rest
ReqRests ==
    {<< >>, <<"/">>} \cup {<<"/">> \o s : s \in ReqSlugs}
                     \cup {<<"/">> \o s \o <<"/">> : s \in ReqSlugs}

MovieEntities ==
    {[title |-> t, name |-> << >>] : t \in Titles}
        \cup {[title |-> << >>, name |-> n] : n \in Titles}

TvEntities ==
    {[name |-> t, original_name |-> << >>] : t \in Titles}
        \cup {[name |-> << >>, original_name |-> n] : n \in Titles}

\* what tmdbGet returns for a detail endpoint: null or the entity
DetailOutcomes(route) ==
    {None} \cup {Some(e) : e \in IF route = "tv" THEN TvEntities ELSE MovieEntities}

GenreIdParams == {<<"2","8">>, <<"3","5">>, <<"0","2","8">>}

\* what tmdbGet returns for /genre/{movie,tv}/list
GenreListOutcomes ==
    {None, Some([genres |-> None]), Some([genres |-> Some(<< >>)])}
        \cup {Some([genres |-> Some(<<[id |-> 28, name |-> n]>>)]) : n \in Titles}

\* upstream list items: a movie (title) and a show (name)
Items ==
    {[id |-> 1, title |-> <<"a"," ","B">>, name |-> << >>, media_type |-> "movie"],
     [id |-> 2, title |-> << >>, name |-> <<"!">>, media_type |-> ""]}

-----------------------------------------------------------------------------
(* A client that follows redirects (SpecRedirect) *)

\* the Cookie header a client with this jar sends
CookiesOf(j) ==
    IF j = None THEN << >> ELSE <<[name |-> "lang_preference", value |-> j[1]]>>

Request(route, mediaType, id, rest, qlang, qpage, cookies, accept) ==
    [route |-> route, mediaType |-> mediaType, id |-> id, rest |-> rest,
     qlang |-> qlang, qpage |-> qpage, cookies |-> cookies, accept |-> accept]

\* what identifies a request of the chain: its URL and the cookie sent
Sent(r) ==
    [route |-> r.route, mediaType |-> r.mediaType, id |-> r.id, rest |-> r.rest,
     qlang |-> r.qlang, qpage |-> r.qpage, cookies |-> r.cookies]

StartRequests(j) ==
    {Request(route, "", <<"1">>, rest, qlang, None, CookiesOf(j), None) :
        route \in {"movie", "tv"}, rest \in ReqRests, qlang \in {None, Some(Id)}}
    \cup
    {Request("genre", mt, g, rest, None, qpage, CookiesOf(j), None) :
        mt \in MediaTypes, g \in GenreIdParams,
        rest \in ReqRests, qpage \in {None, Some(2)}}

InitRedirect ==
    /\ jar \in {None, Some(En)}
    /\ req \in StartRequests(jar)
    /\ resp = None
    /\ chain = <<Sent(req)>>
    /\ upstream = [l \in SUPPORTED_LANGS |-> None]
    /\ genreCache = [m \in MediaTypes |-> None]
    /\ calls = << >>
    /\ tmdbCalls = << >>
    /\ NoClient /\ NoFault /\ NoHelper

\* tmdbGet for the detail endpoint of req: the upstream data do not change
\* during a chain, so a locale asked before answers as before
DetailAnswers(route, lang) ==
    IF upstream[lang] = None THEN DetailOutcomes(route) ELSE {upstream[lang][1]}

HandleMovie ==
    /\ resp = None /\ req.route = "movie" /\ RouteMatches(req.rest)
    /\ LET lc == getRequestLang(req)
       IN  \E movie \in DetailAnswers("movie", lc.lang) :
              /\ upstream' = [upstream EXCEPT ![lc.lang] = Some(movie)]
              /\ resp' = Some(MovieResponse(req, lc, movie))
    /\ UNCHANGED <<req, chain, jar, genreCache, genreVars, routeVars, clientVars, faultVars, helperVars>>

HandleTv ==
    /\ resp = None /\ req.route = "tv" /\ RouteMatches(req.rest)
    /\ LET lc == getRequestLang(req)
       IN  \E tv \in DetailAnswers("tv", lc.lang) :
              /\ upstream' = [upstream EXCEPT ![lc.lang] = Some(tv)]
              /\ resp' = Some(TvResponse(req, lc, tv))
    /\ UNCHANGED <<req, chain, jar, genreCache, genreVars, routeVars, clientVars, faultVars, helperVars>>

\* getGenres run to completion (no other request is in flight here), then
\* the rest of the genre handler
HandleGenre ==
    /\ resp = None /\ req.route = "genre" /\ RouteMatches(req.rest)
    /\ LET lc == getRequestLang(req)
           mt == req.mediaType
       IN  \E fill \in IF CacheHit(genreCache, mt) THEN {None} ELSE GenreListOutcomes :
              LET genresList == IF CacheHit(genreCache, mt)
                                THEN genreCache[mt][1] ELSE GenresOrEmpty(fill)
              IN  /\ genreCache' = [genreCache EXCEPT ![mt] = Some(genresList)]
                  /\ \E data \in IF GenreRedirects(req, genresList)
                                  THEN {None}
                                  ELSE {None, Some([results |-> Some(<< >>)])} :
                         resp' = Some(GenreResponse(req, lc, genresList, data))
    /\ UNCHANGED <<req, chain, jar, upstream, genreVars, routeVars, clientVars, faultVars, helperVars>>

\* the client stores the cookie of the response and requests the Location
FollowRedirect ==
    /\ resp # None /\ resp[1].status = 301
    /\ Len(chain) < MaxChain
    /\ LET loc == resp[1].location[1]
           j == IF resp[1].setCookie = None THEN jar
                ELSE Some(resp[1].setCookie[1].value)
           next == Request(loc.route, loc.mediaType, loc.id, loc.rest, None,
                           loc.page, CookiesOf(j), req.accept)
       IN  /\ jar' = j
           /\ req' = next
           /\ chain' = Append(chain, Sent(next))
    /\ resp' = None
    /\ UNCHANGED <<upstream, genreCache, genreVars, routeVars, clientVars, faultVars, helperVars>>

NextRedirect == HandleMovie \/ HandleTv \/ HandleGenre \/ FollowRedirect

SpecRedirect == InitRedirect /\ [][NextRedirect]_vars

-----------------------------------------------------------------------------
(* Claims on the redirect-until-stable routes *)

\* the slug segment a request path carries after the id segment: None when
\* the path ends at the id, else the text between the next "/" and the end
\* of the path (or a closing "/")
RequestedSegment(rest) ==
    IF rest = << >> THEN None ELSE Some(StripTrailingSlash(Tail(rest)))

\* the title the detail handler derives from the upstream entity
EntityTitle(route, e) == IF route = "tv" THEN TvTitle(e) ELSE MovieTitle(e)

\* C1: on the movie and TV detail routes a request is answered 404 when
\* upstream yields no entity; otherwise, with c = slugify(title), it is
\* answered 200 without redirect when its slug segment equals c and 301 with
\* Location /movie/{id}/{c} (resp. /tv/{id}/{c}) when the segment differs or
\* is missing, for every title.
C1_DetailCanonical ==
    (resp # None /\ req.route \in {"movie", "tv"}) =>
        LET e == upstream[getRequestLang(req).lang][1]
        IN  IF e = None THEN resp[1].status = 404
            ELSE LET c == slugify(EntityTitle(req.route, e[1]))
                 IN  IF RequestedSegment(req.rest) = Some(c)
                     THEN resp[1].status = 200 /\ resp[1].location = None
                     ELSE /\ resp[1].status = 301
                          /\ resp[1].location = Some(DetailPath(req.route, req.id, c))

\* C2: a client that keeps requesting the Location of each 301 never makes
\* the same request (same URL, same cookie) twice: with the upstream data
\* unchanged a repeated request is answered as before, so a repetition is an
\* endless redirect chain.
C2_RedirectChainEnds ==
    \A i, j \in 1..Len(chain) : i < j => chain[i] # chain[j]

-----------------------------------------------------------------------------
(* Concurrent getGenres calls (SpecGenre).  A call runs from its start to
   its await of tmdbGet in one step, and from the reply to its return in
   another; calls of different requests interleave at the await. *)

Callers == 1..MaxCalls

\* the genre list the upstream holds for a locale
LocalizedGenres(lang) ==
    IF lang = Id THEN <<[id |-> 28, name |-> <<"B">>]>>
                 ELSE <<[id |-> 28, name |-> <<"a">>]>>

\* what tmdbGet can return to a fill made with this locale: null (a failed
\* call), a payload without genres, or the list
FillOutcomes(lang) ==
    {None, Some([genres |-> None]), Some([genres |-> Some(LocalizedGenres(lang))])}

IdleCall ==
    [pc |-> "idle", mediaType |-> "", lang |-> << >>, seq |-> 0,
     sawCache |-> None, fetched |-> FALSE, ret |-> None,
     alone |-> FALSE, got |-> None]

\* IdleCall records, besides the call's position and arguments: seq, its
\* rank among the calls for its media type; sawCache, the cache entry it
\* found; alone, whether no other call for its media type was awaiting the
\* upstream when it started; got, what tmdbGet returned to it

\* the calls made for a media type so far
StartedFor(mt) == {c \in Callers : calls[c].pc # "idle" /\ calls[c].mediaType = mt}

InitGenre ==
    /\ genreCache = [m \in MediaTypes |-> None]
    /\ calls = [c \in Callers |-> IdleCall]
    /\ req = None /\ resp = None /\ chain = << >> /\ jar = None
    /\ upstream = None
    /\ tmdbCalls = << >>
    /\ NoClient /\ NoFault /\ NoHelper

\* getGenres(mediaType, lang) up to its return on a cache hit, or up to
\* `await tmdbGet(endpoint, {}, lang)` on a miss
GetGenresCall(c, mt, lang) ==
    /\ calls[c].pc = "idle"
    /\ LET started == [IdleCall EXCEPT !.mediaType = mt, !.lang = lang,
                                       !.seq = Cardinality(StartedFor(mt)) + 1,
                                       !.sawCache = genreCache[mt],
                                       !.alone = \A o \in StartedFor(mt) :
                                                     calls[o].pc # "awaiting"]
       IN  IF CacheHit(genreCache, mt)
           THEN calls' = [calls EXCEPT ![c] =
                    [started EXCEPT !.pc = "returned", !.ret = Some(genreCache[mt][1])]]
           ELSE calls' = [calls EXCEPT ![c] =
                    [started EXCEPT !.pc = "awaiting", !.fetched = TRUE]]
    /\ UNCHANGED <<genreCache, redirectVars, routeVars, clientVars, faultVars, helperVars>>

\* the rest of getGenres, once tmdbGet has returned data:
\* genreCache[mediaType] = data?.genres || []; return genreCache[mediaType]
GetGenresResume(c, data) ==
    /\ calls[c].pc = "awaiting"
    /\ genreCache' = [genreCache EXCEPT ![calls[c].mediaType] = Some(GenresOrEmpty(data))]
    /\ calls' = [calls EXCEPT ![c].pc = "returned",
                              ![c].ret = Some(GenresOrEmpty(data)),
                              ![c].got = Some(data)]
    /\ UNCHANGED <<redirectVars, routeVars, clientVars, faultVars, helperVars>>

NextGenre ==
    \/ \E c \in Callers, mt \in MediaTypes, lang \in SUPPORTED_LANGS :
           GetGenresCall(c, mt, lang)
    \/ \E c \in Callers : \E data \in FillOutcomes(calls[c].lang) :
           GetGenresResume(c, data)

SpecGenre == InitGenre /\ [][NextGenre]_vars

\* C3: once genreCache[mediaType] holds a list, no step changes it.
C3_CacheImmutable ==
    [][\A m \in MediaTypes : genreCache[m] # None => genreCache'[m] = genreCache[m]]_vars

-----------------------------------------------------------------------------
(* The locale resolver on its own (SpecLang) *)

\* values of req.query.lang: absent, empty, supported, unsupported
QueryLangs == {None, Some(<< >>), Some(En), Some(Id), Some(<<"x","x">>), Some(<<"E","N">>)}

CookieValues ==
    {En, Id, << >>, <<"e","n","-","U","S">>, <<"i","d","_","I","D">>, <<"-","i","d">>}

CookiePairs ==
    {[name |-> "lang_preference", value |-> v] : v \in CookieValues}
        \cup {[name |-> "sid", value |-> <<"i","d">>]}

RECURSIVE SeqsOfLen(_, _)
SeqsOfLen(S, n) ==
    IF n = 0 THEN {<< >>}
    ELSE {<<x>> \o s : x \in S, s \in SeqsOfLen(S, n - 1)}

CookieHeaders == UNION {SeqsOfLen(CookiePairs, k) : k \in 0..MaxCookies}

AcceptHeaders ==
    {None, Some(Id), Some(<<"I","D","-","i","d">>), Some(<<"e","n",",","i","d">>)}

InitLang ==
    /\ req \in {Request("", "", << >>, << >>, q, None, c, a) :
                    q \in QueryLangs, c \in CookieHeaders, a \in AcceptHeaders}
    /\ resp = None
    /\ chain = << >> /\ jar = None /\ upstream = None
    /\ genreCache = [m \in MediaTypes |-> None]
    /\ calls = << >>
    /\ tmdbCalls = << >>
    /\ NoClient /\ NoFault /\ NoHelper

\* const lang = getRequestLang(req, res), the first statement of a handler
ResolveLang ==
    /\ resp = None
    /\ resp' = Some(getRequestLang(req))
    /\ UNCHANGED <<req, chain, jar, upstream, genreCache, calls, tmdbCalls, clientVars, faultVars, helperVars>>

NextLang == ResolveLang

SpecLang == InitLang /\ [][NextLang]_vars

\* the lang query parameter is one of the supported locales
QueryLangValid == req.qlang # None /\ req.qlang[1] \in {En, Id}

\* Accept-Language starts with "id" (language tags compare without case)
AcceptStartsWithId ==
    /\ req.accept # None /\ Len(req.accept[1]) >= 2
    /\ req.accept[1][1] \in {"i", "I"} /\ req.accept[1][2] \in {"d", "D"}

\* the value of the request's lang_preference cookie (the first one)
CookieValue ==
    IF \E i \in 1..Len(req.cookies) : req.cookies[i].name = "lang_preference"
    THEN LET i == CHOOSE i \in 1..Len(req.cookies) :
                    /\ req.cookies[i].name = "lang_preference"
                    /\ \A j \in 1..(i - 1) : req.cookies[j].name # "lang_preference"
         IN  Some(req.cookies[i].value)
    ELSE None

OneYear == 365 * 24 * 60 * 60

\* C5 as stated: a valid lang query parameter is the locale and is written
\* to a one-year SameSite=Lax lang_preference cookie; otherwise no cookie is
\* written and the locale is the cookie value if it is en or id, else id if
\* Accept-Language starts with id, else en.
C5_LocaleRule ==
    resp # None =>
        IF QueryLangValid
        THEN /\ resp[1].lang = req.qlang[1]
             /\ resp[1].setCookie =
                    Some([name |-> "lang_preference", value |-> req.qlang[1],
                          maxAge |-> OneYear, sameSite |-> "Lax"])
        ELSE /\ resp[1].setCookie = None
             /\ resp[1].lang =
                    IF CookieValue # None /\ CookieValue[1] \in {En, Id} THEN CookieValue[1]
                    ELSE IF AcceptStartsWithId THEN Id ELSE En

\* p is what /lang_preference=(\w+)/ captures from value v: the longest
\* non-empty prefix of v made of letters, digits and underscores
IsWordRunOf(p, v) ==
    /\ p # << >> /\ StartsWith(v, p)
    /\ \A k \in 1..Len(p) : IsWordChar(p[k])
    /\ Len(v) > Len(p) => ~IsWordChar(v[Len(p) + 1])

\* the locale the request's cookies name: the word run of the leftmost
\* lang_preference cookie whose value starts with a word character
CookieNames(l) ==
    \E i \in 1..Len(req.cookies) :
        /\ req.cookies[i].name = "lang_preference"
        /\ IsWordRunOf(l, req.cookies[i].value)
        /\ \A j \in 1..(i - 1) :
              req.cookies[j].name = "lang_preference"
                  => (req.cookies[j].value = << >> \/ ~IsWordChar(req.cookies[j].value[1]))

\* C5 amended: as C5_LocaleRule, but the cookie is read as the leading run
\* of word characters of the lang_preference cookie value (en-US counts as
\* en); the resolved locale and any cookie written are in {en, id}.
C5_LocalePrecedence ==
    resp # None =>
        /\ resp[1].lang \in {En, Id}
        /\ IF QueryLangValid
           THEN /\ resp[1].lang = req.qlang[1]
                /\ resp[1].setCookie =
                       Some([name |-> "lang_preference", value |-> req.qlang[1],
                             maxAge |-> OneYear, sameSite |-> "Lax"])
           ELSE /\ resp[1].setCookie = None
                /\ IF \E l \in {En, Id} : CookieNames(l)
                   THEN CookieNames(resp[1].lang)
                   ELSE resp[1].lang = IF AcceptStartsWithId THEN Id ELSE En

\* ?lang=id with a lang_preference=en cookie: resolved id, cookie rewritten
C5_Witness ==
    /\ resp # None /\ req.qlang = Some(Id)
    /\ req.cookies = <<[name |-> "lang_preference", value |-> En]>>
    /\ resp[1].lang = Id /\ resp[1].setCookie # None
    /\ resp[1].setCookie[1].value = Id

-----------------------------------------------------------------------------
(* Canonical URLs and the list routes *)

\* process.env.SITE_URL, here with a trailing slash
SITE_URL == <<"h","t","t","p",":","/","/","s","z","/">>

\* SITE_URL.replace(/\/+$/, '')
RECURSIVE StripTrailingSlashes(_)
StripTrailingSlashes(u) ==
    IF u # << >> /\ u[Len(u)] = "/"
    THEN StripTrailingSlashes(SubSeq(u, 1, Len(u) - 1))
    ELSE u

\* a buildCanonical that appends the path as it is
buildCanonicalPlain(siteUrl, path) == StripTrailingSlashes(siteUrl) \o path

\* if (!path.startsWith('/')) path = '/' + path;
\* return SITE_URL.replace(/\/+$/, '') + path;
\* for a process whose SITE_URL is siteUrl
buildCanonicalAt(siteUrl, path) ==
    StripTrailingSlashes(siteUrl)
        \o (IF StartsWith(path, <<"/">>) THEN path ELSE <<"/">> \o path)

buildCanonical(path) == buildCanonicalAt(SITE_URL, path)

\* String.prototype.trim, for the space character
RECURSIVE Trim(_)
Trim(s) ==
    IF s = << >> THEN << >>
    ELSE IF s[1] = " " THEN Trim(Tail(s))
    ELSE IF s[Len(s)] = " " THEN Trim(SubSeq(s, 1, Len(s) - 1))
    ELSE s

\* a slice that keeps the whole list
SliceAll(items, n) == items

\* items.slice(0, n)
Slice(items, n) == SubSeq(items, 1, IF Len(items) < n THEN Len(items) ELSE n)

\* data?.page || page  and  data?.total_pages || 1  (0 stands for a missing
\* field as well: both are falsy)
FieldOr(data, field, dflt) ==
    IF data = None \/ data[1][field] = 0 THEN dflt ELSE data[1][field]

\* one call of tmdbGet as the handler sees it
Call(endpoint, page, lc, data) ==
    [endpoint |-> endpoint, page |-> page, lang |-> lc.lang, data |-> data]

\* app.get('/'): the three lists handed to the index view
HomeResponse(lc, trendingMovies, trendingTv, popularMovies) ==
    Response(200, None, lc.setCookie, "index",
             [trendingMovies |-> ResultsOrEmpty(trendingMovies),
              trendingTv |-> ResultsOrEmpty(trendingTv),
              popularMovies |-> ResultsOrEmpty(popularMovies),
              searchResults |-> << >>])

\* const query = (req.query.q || '').trim()
SearchQuery(r) == Trim(IF r.q = None THEN << >> ELSE r.q[1])

\* app.get('/search') once the query is known not to be empty
SearchResponse(r, lc, data) ==
    Response(200, None, lc.setCookie, "index",
             [trendingMovies |-> << >>, trendingTv |-> << >>,
              popularMovies |-> << >>, searchResults |-> ResultsOrEmpty(data)])

\* if (!query) return res.redirect('/')
SearchRedirect(lc) ==
    Response(302, Some(<<"/">>), lc.setCookie, "", << >>)

\* app.get('/year/:mediaType(movie|tv)/:year')
YearResponse(r, lc, data) ==
    Response(200, None, lc.setCookie, "listing", ResultsOrEmpty(data))

-----------------------------------------------------------------------------
(* GET /api/section *)

EP_TrendingMovie == "/trending/movie/week"
EP_TrendingTv == "/trending/tv/week"
EP_PopularMovie == "/movie/popular"

\* a section the handler answers with 200 whatever its name
SectionEndpointLenient(section) ==
    IF section = Some("trending-tv") THEN Some(EP_TrendingTv)
    ELSE IF section = Some("popular-movie") THEN Some(EP_PopularMovie)
    ELSE Some(EP_TrendingMovie)

\* the if / else-if chain on req.query.section: the endpoint, or None where
\* the handler returns res.status(400)
SectionEndpoint(section) ==
    IF section = Some("trending-movie") THEN Some(EP_TrendingMovie)
    ELSE IF section = Some("trending-tv") THEN Some(EP_TrendingTv)
    ELSE IF section = Some("popular-movie") THEN Some(EP_PopularMovie)
    ELSE None

\* the item shape: id, title, media_type and slug (poster_path,
\* vote_average and date are copied fields and are left out)
ShapeItem(item, section) ==
    [id |-> item.id,
     title |-> JsOr(item.title, item.name),
     media_type |-> IF item.media_type # "" THEN item.media_type
                    ELSE IF section = Some("trending-tv") THEN "tv" ELSE "movie",
     slug |-> slugify(JsOr(JsOr(item.title, item.name), << >>))]

\* data?.results?.map(item => ({...})) || []
ShapedItems(data, section) ==
    LET results == ResultsOrEmpty(data)
    IN  [i \in 1..Len(results) |-> ShapeItem(results[i], section)]

\* the handler of a known section, given what tmdbGet returned
SectionResponse(r, lc, data) ==
    Response(200, None, lc.setCookie, "json",
             [page |-> FieldOr(data, "page", PageParam(r)),
              total_pages |-> FieldOr(data, "total_pages", 1),
              results |-> ShapedItems(data, r.section)])

SectionBadRequest(lc) ==
    Response(400, None, lc.setCookie, "json", [error |-> "Unknown section"])

-----------------------------------------------------------------------------
(* GET /sitemap.xml *)

StaticPaths == <<<<"/","a","b","o","u","t">>, <<"/","p","r","i","v","a","c","y","-","p","o","l","i","c","y">>, <<"/","t","e","r","m","s">>, <<"/","d","m","c","a">>, <<"/","c","o","n","t","a","c","t">>>>

popularMovieGenres == <<[id |-> 28, name |-> <<"A","c","t","i","o","n">>],
                        [id |-> 35, name |-> <<"C","o","m","e","d","y">>],
                        [id |-> 18, name |-> <<"D","r","a","m","a">>],
                        [id |-> 27, name |-> <<"H","o","r","r","o","r">>],
                        [id |-> 878, name |-> <<"S","c","i","e","n","c","e"," ","F","i","c","t","i","o","n">>]>>

years == <<2025, 2024, 2023, 2022>>

SitemapSample == 100

Url(loc, changefreq, priority) ==
    [loc |-> loc, changefreq |-> changefreq, priority |-> priority]

\* addItems(items = [], type): one entry for each of the first 100 items
AddItems(data, type) ==
    LET items == Slice(ResultsOrEmpty(data), SitemapSample)
    IN  [i \in 1..Len(items) |->
            Url(buildCanonical(<<"/">> \o type \o <<"/">> \o JsString(items[i].id) \o <<"/">>
                                   \o slugify(JsOr(items[i].title, items[i].name))),
                "daily", "0.8")]

\* the urls array, in the order the handler pushes to it
SitemapUrls(trendingMovies, trendingTv, popularMovies) ==
    <<Url(buildCanonical(<<"/">>), "hourly", "1.0")>>
    \o [i \in 1..Len(StaticPaths) |-> Url(buildCanonical(StaticPaths[i]), "monthly", "0.5")]
    \o [i \in 1..Len(popularMovieGenres) |->
            Url(buildCanonical(<<"/","g","e","n","r","e","/","m","o","v","i","e","/">> \o JsString(popularMovieGenres[i].id) \o <<"/">>
                                   \o slugify(popularMovieGenres[i].name)),
                "daily", "0.7")]
    \o [k \in 1..(2 * Len(years)) |->
            Url(buildCanonical((IF k % 2 = 1 THEN <<"/","y","e","a","r","/","m","o","v","i","e","/">> ELSE <<"/","y","e","a","r","/","t","v","/">>)
                                   \o JsString(years[(k + 1) \div 2])),
                "weekly", "0.6")]
    \o AddItems(trendingMovies, <<"m","o","v","i","e">>)
    \o AddItems(popularMovies, <<"m","o","v","i","e">>)
    \o AddItems(trendingTv, <<"t","v">>)

SitemapResponse(trendingMovies, trendingTv, popularMovies) ==
    Response(200, None, None, "xml",
             SitemapUrls(trendingMovies, trendingTv, popularMovies))

-----------------------------------------------------------------------------
(* One request to each route, with every upstream outcome (SpecRoutes) *)

ResultLists == UNION {SeqsOfLen(Items, k) : k \in 0..MaxResults}

\* what tmdbGet returns for a list endpoint asked for page p: null, or a
\* payload whose page, total_pages and results may be missing
ListOutcomes(p) ==
    {None} \cup
    {Some([page |-> pg, total_pages |-> tp, results |-> rs]) :
        pg \in {0, p}, tp \in {0, 1, 3},
        rs \in {None} \cup {Some(l) : l \in ResultLists}}

\* the same for the routes that join three calls
JoinedOutcomes ==
    {None, Some([page |-> 1, total_pages |-> 3, results |-> None])} \cup
    {Some([page |-> 1, total_pages |-> 3, results |-> Some(l)]) : l \in ResultLists}

\* a list with one item more than the sitemap samples
LongList ==
    [i \in 1..(SitemapSample + 1) |->
        [id |-> i, title |-> <<"a">>, name |-> << >>, media_type |-> "movie"]]

\* what tmdbGet returns to each of the three calls of the sitemap
SitemapOutcomes ==
    JoinedOutcomes \cup
    {Some([page |-> 1, total_pages |-> 3, results |-> Some(LongList)])}

RouteRequest(route, mediaType, id, rest, qlang, qpage, q, section) ==
    [route |-> route, mediaType |-> mediaType, id |-> id, rest |-> rest,
     qlang |-> qlang, qpage |-> qpage, cookies |-> << >>, accept |-> None,
     q |-> q, section |-> section]

QueryPages == {None, Some(2)}
RouteLangs == {None, Some(Id)}
SearchQueries == {None, Some(<<" ">>), Some(<<"a">>), Some(<<" ","a"," ">>)}
Sections == {None, Some("trending-movie"), Some("trending-tv"),
             Some("popular-movie"), Some("bogus")}

InitRoutes ==
    /\ req = None /\ resp = None /\ tmdbCalls = << >>
    /\ genreCache = [m \in MediaTypes |-> None]
    /\ chain = << >> /\ jar = None /\ upstream = None /\ calls = << >>
    /\ NoClient /\ NoFault /\ NoHelper

idleVars == <<chain, jar, upstream, calls, clientVars, faultVars, helperVars>>

RouteHome ==
    /\ req = None
    /\ \E ql \in RouteLangs, tm \in JoinedOutcomes, tt \in JoinedOutcomes, pm \in JoinedOutcomes :
          LET r == RouteRequest("home", "", << >>, << >>, ql, None, None, None)
              lc == getRequestLang(r)
          IN  /\ req' = Some(r)
              /\ tmdbCalls' = <<Call(EP_TrendingMovie, 1, lc, tm),
                                Call(EP_TrendingTv, 1, lc, tt),
                                Call(EP_PopularMovie, 1, lc, pm)>>
              /\ resp' = Some(HomeResponse(lc, tm, tt, pm))
    /\ UNCHANGED <<genreCache, idleVars>>

RouteMovie ==
    /\ req = None
    /\ \E ql \in RouteLangs, rest \in ReqRests, movie \in DetailOutcomes("movie") :
          LET r == RouteRequest("movie", "", <<"1">>, rest, ql, None, None, None)
              lc == getRequestLang(r)
          IN  /\ RouteMatches(rest)
              /\ req' = Some(r)
              /\ tmdbCalls' = <<Call("/movie/:id", 0, lc, movie)>>
              /\ resp' = Some(MovieResponse(r, lc, movie))
    /\ UNCHANGED <<genreCache, idleVars>>

RouteTv ==
    /\ req = None
    /\ \E ql \in RouteLangs, rest \in ReqRests, tv \in DetailOutcomes("tv") :
          LET r == RouteRequest("tv", "", <<"1">>, rest, ql, None, None, None)
              lc == getRequestLang(r)
          IN  /\ RouteMatches(rest)
              /\ req' = Some(r)
              /\ tmdbCalls' = <<Call("/tv/:id", 0, lc, tv)>>
              /\ resp' = Some(TvResponse(r, lc, tv))
    /\ UNCHANGED <<genreCache, idleVars>>

RouteSearch ==
    /\ req = None
    /\ \E ql \in RouteLangs, q \in SearchQueries :
          LET r == RouteRequest("search", "", << >>, << >>, ql, None, q, None)
              lc == getRequestLang(r)
          IN  /\ req' = Some(r)
              /\ IF SearchQuery(r) = << >>
                 THEN /\ tmdbCalls' = << >>
                      /\ resp' = Some(SearchRedirect(lc))
                 ELSE \E data \in ListOutcomes(1) :
                      /\ tmdbCalls' = <<Call("/search/multi", 1, lc, data)>>
                      /\ resp' = Some(SearchResponse(r, lc, data))
    /\ UNCHANGED <<genreCache, idleVars>>

\* getGenres on the empty cache, then the rest of the genre handler.  held
\* is the genre list the upstream holds; the list call returns it or fails.
RouteGenre ==
    /\ req = None
    /\ \E mt \in MediaTypes, g \in GenreIdParams, rest \in ReqRests, qp \in QueryPages,
          held \in GenreListOutcomes \ {None}, ok \in BOOLEAN :
          LET r == RouteRequest("genre", mt, g, rest, None, qp, None, None)
              lc == getRequestLang(r)
              fill == IF ok THEN held ELSE None
              genresList == GenresOrEmpty(fill)
              listCall == [endpoint |-> IF mt = "tv" THEN "/genre/tv/list"
                                                      ELSE "/genre/movie/list",
                           page |-> 0, lang |-> lc.lang, data |-> fill, held |-> held]
          IN  /\ RouteMatches(rest) /\ ~CacheHit(genreCache, mt)
              /\ req' = Some(r)
              /\ genreCache' = [genreCache EXCEPT ![mt] = Some(genresList)]
              /\ IF GenreRedirects(r, genresList)
                 THEN /\ tmdbCalls' = <<listCall>>
                      /\ resp' = Some(GenreResponse(r, lc, genresList, None))
                 ELSE \E data \in JoinedOutcomes :
                      /\ tmdbCalls' = <<listCall,
                                        Call(IF mt = "tv" THEN "/discover/tv" ELSE "/discover/movie",
                                             PageParam(r), lc, data)>>
                      /\ resp' = Some(GenreResponse(r, lc, genresList, data))
    /\ UNCHANGED idleVars

RouteYear ==
    /\ req = None
    /\ \E mt \in MediaTypes, qp \in QueryPages :
          LET r == RouteRequest("year", mt, <<"2","0","2","4">>, << >>, None, qp, None, None)
              lc == getRequestLang(r)
          IN  \E data \in ListOutcomes(PageParam(r)) :
              /\ req' = Some(r)
              /\ tmdbCalls' = <<Call(IF mt = "tv" THEN "/discover/tv" ELSE "/discover/movie",
                                     PageParam(r), lc, data)>>
              /\ resp' = Some(YearResponse(r, lc, data))
    /\ UNCHANGED <<genreCache, idleVars>>

RouteSection ==
    /\ req = None
    /\ \E ql \in RouteLangs, section \in Sections, qp \in QueryPages :
          LET r == RouteRequest("section", "", << >>, << >>, ql, qp, None, section)
              lc == getRequestLang(r)
              endpoint == SectionEndpoint(section)
          IN  /\ req' = Some(r)
              /\ IF endpoint = None
                 THEN /\ tmdbCalls' = << >>
                      /\ resp' = Some(SectionBadRequest(lc))
                 ELSE \E data \in ListOutcomes(PageParam(r)) :
                      /\ tmdbCalls' = <<Call(endpoint[1], PageParam(r), lc, data)>>
                      /\ resp' = Some(SectionResponse(r, lc, data))
    /\ UNCHANGED <<genreCache, idleVars>>

RouteSitemap ==
    /\ req = None
    /\ \E tm \in SitemapOutcomes, tt \in SitemapOutcomes, pm \in SitemapOutcomes :
          LET en == [lang |-> En, setCookie |-> None]
          IN  /\ req' = Some(RouteRequest("sitemap", "", << >>, << >>, None, None, None, None))
              /\ tmdbCalls' = <<Call(EP_TrendingMovie, 1, en, tm),
                                Call(EP_TrendingTv, 1, en, tt),
                                Call(EP_PopularMovie, 1, en, pm)>>
              /\ resp' = Some(SitemapResponse(tm, tt, pm))
    /\ UNCHANGED <<genreCache, idleVars>>

NextRoutes ==
    \/ RouteHome \/ RouteMovie \/ RouteTv \/ RouteSearch
    \/ RouteGenre \/ RouteYear \/ RouteSection \/ RouteSitemap

SpecRoutes == InitRoutes /\ [][NextRoutes]_vars

-----------------------------------------------------------------------------
(* Claims on the list routes *)

KnownSections == {Some("trending-movie"), Some("trending-tv"), Some("popular-movie")}

\* the results of the k-th upstream call of the request: none when the call
\* failed or the payload carries no results
UpstreamResults(k) ==
    IF tmdbCalls[k].data = None THEN << >>
    ELSE IF tmdbCalls[k].data[1].results = None THEN << >>
    ELSE tmdbCalls[k].data[1].results[1]

\* C6: GET /api/section answers a section outside the three known ones (an
\* absent one included) with 400 and without an upstream call; it answers a
\* known section with JSON whose total_pages is at least 1 and whose results
\* hold one shaped item per upstream result, in upstream order (none when
\* the upstream page is empty or the call failed).
C6_SectionApi ==
    (resp # None /\ req[1].route = "section") =>
        IF req[1].section \notin KnownSections
        THEN resp[1].status = 400 /\ tmdbCalls = << >>
        ELSE /\ resp[1].status = 200 /\ resp[1].view = "json"
             /\ Len(tmdbCalls) = 1
             /\ resp[1].body.total_pages >= 1
             /\ Len(resp[1].body.results) = Len(UpstreamResults(1))
             /\ \A i \in 1..Len(UpstreamResults(1)) :
                   /\ resp[1].body.results[i].id = UpstreamResults(1)[i].id
                   /\ resp[1].body.results[i].title \in
                         {UpstreamResults(1)[i].title, UpstreamResults(1)[i].name} \ {<< >>}

\* a known section answered with two shaped items in upstream order, the
\* upstream payload carrying no total_pages
C6_Witness ==
    /\ resp # None /\ req[1].route = "section"
    /\ req[1].section = Some("trending-tv")
    /\ tmdbCalls[1].data # None /\ tmdbCalls[1].data[1].total_pages = 0
    /\ Len(UpstreamResults(1)) = 2
    /\ UpstreamResults(1)[1].id = 2 /\ UpstreamResults(1)[2].id = 1
    /\ resp[1].body.results[1].id = 2 /\ resp[1].body.results[2].id = 1
    /\ resp[1].body.total_pages = 1

Failed(k) == k <= Len(tmdbCalls) /\ tmdbCalls[k].data = None

\* entries a sitemap holds besides the detail pages: home, the static
\* pages, the genres and two per year
SitemapFixed == 1 + Len(StaticPaths) + Len(popularMovieGenres) + 2 * Len(years)

\* the detail-page entries owed to the k-th upstream list: one per result,
\* up to the sample size
Sampled(k) ==
    IF Failed(k) THEN 0
    ELSE IF Len(UpstreamResults(k)) < SitemapSample THEN Len(UpstreamResults(k))
    ELSE SitemapSample

\* the genre request carries the slug of the name the upstream holds for
\* its genre id: the request a healthy upstream has answered with 200
AsksHeldGenreSlug ==
    /\ req[1].route = "genre"
    /\ \E i \in 1..Len(GenresOrEmpty(tmdbCalls[1].held)) :
          LET g == GenresOrEmpty(tmdbCalls[1].held)[i]
          IN  /\ JsString(g.id) = req[1].id
              /\ slugify(g.name) # << >>
              /\ RequestedSegment(req[1].rest) = Some(slugify(g.name))

\* C7: when upstream calls of a request fail (tmdbGet returns null) the
\* response is 404 on the detail routes and, on the home, search, genre,
\* year, section-API and sitemap routes, a normal 200 response with zero
\* items for each collection whose call failed; never a 500.  (On the genre
\* route the 200 is owed to a request that carries the genre's slug; any
\* other request is redirected whether or not the upstream fails.)
C7_UpstreamFailureDegrades ==
    (resp # None /\ \E k \in 1..Len(tmdbCalls) : Failed(k)) =>
        LET route == req[1].route
            body == resp[1].body
        IN  IF route \in {"movie", "tv"} THEN resp[1].status = 404
            ELSE IF route = "genre"
            THEN /\ resp[1].status \in {200, 301}
                 /\ AsksHeldGenreSlug => resp[1].status = 200
                 /\ (resp[1].status = 200 /\ Failed(2)) => body = << >>
            ELSE /\ resp[1].status = 200
                 /\ route = "home" =>
                       /\ Failed(1) => body.trendingMovies = << >>
                       /\ Failed(2) => body.trendingTv = << >>
                       /\ Failed(3) => body.popularMovies = << >>
                 /\ route = "search" => body.searchResults = << >>
                 /\ route = "year" => body = << >>
                 /\ route = "section" => body.results = << >>
                 /\ route = "sitemap" =>
                       Len(body) = SitemapFixed + Sampled(1) + Sampled(2) + Sampled(3)

-----------------------------------------------------------------------------
(* The load-more control of the home page (main.js) *)

\* the highest total_pages the metadata API reports to the page
MaxPages == 3

LabelOriginal == "Load more"
LabelLoading == "Loading..."
LabelNoMore == "No more items"

\* max auto-load per section
maxAuto == 3

\* an observer callback that never finds the cap reached
AutoCapNever(b) == FALSE

\* if (autoCount >= maxAuto) return
AutoCapReached(b) == b.autoCount >= maxAuto

\* the label change alone, without the disabling
StartLoadingEnabled(b) == [b EXCEPT !.html = LabelLoading]

\* the prop('disabled', true).html(... Loading...) both scripts run before
\* the request
StartLoading(b) == [b EXCEPT !.disabled = TRUE, !.html = LabelLoading]

\* what the callbacks of one request close over: nextPage, originalHtml and
\* isAuto; prePage and preCards record the stored page and the number of
\* grid entries at the time of the request
Xhr(b, isAuto) ==
    [page |-> b.page + 1, originalHtml |-> b.html, isAuto |-> isAuto,
     prePage |-> b.page, preCards |-> Len(grid)]

\* the last-page test with a strict comparison
IsLastPageStrict(res, currentPage) ==
    res.total_pages # 0 /\ currentPage > res.total_pages

\* res.total_pages && currentPage >= res.total_pages
IsLastPage(res, currentPage) ==
    res.total_pages # 0 /\ currentPage >= res.total_pages

\* !res.results.length (res is the object the section API answered, so
\* res.results is an array)
NoMoreData(res) == res.results = << >>

\* the .done callback on the button
DoneButton(b, x, res) ==
    IF NoMoreData(res)
    THEN [b EXCEPT !.disabled = TRUE, !.html = LabelNoMore]
    ELSE LET currentPage == IF res.page # 0 THEN res.page ELSE x.page
         IN  IF IsLastPage(res, currentPage)
             THEN [b EXCEPT !.page = currentPage, !.disabled = TRUE,
                            !.html = LabelNoMore]
             ELSE [b EXCEPT !.page = currentPage, !.disabled = FALSE,
                            !.html = x.originalHtml]

\* $grid.append($newEls): one entry per appended response
DoneGrid(g, res) ==
    IF NoMoreData(res) THEN g
    ELSE Append(g, [page |-> res.page, cards |-> Len(res.results)])

\* the .fail callback on the button
FailButton(b, x) == [b EXCEPT !.disabled = FALSE, !.html = x.originalHtml]

\* the .always callback on the button: the script with setupAutoLoad
\* clears data('loading'), the other one has no such flag
AlwaysButton(b) == IF script = "auto" THEN [b EXCEPT !.loading = FALSE] ELSE b

RemoveAt(q, i) == [k \in 1..(Len(q) - 1) |-> IF k < i THEN q[k] ELSE q[k + 1]]

\* what tmdbGet returns to the section API for page p of a list
SectionOutcomes(p) ==
    {None} \cup
    {Some([page |-> pg, total_pages |-> tp, results |-> rs]) :
        pg \in {0, p}, tp \in {0, MaxPages},
        rs \in {None} \cup {Some(l) : l \in UNION {SeqsOfLen(Items, k) : k \in 0..1}}}

\* the request $.getJSON('/api/section', {section, page: nextPage}) sends
SectionRequest(section, nextPage) ==
    RouteRequest("section", "", << >>, << >>, None, Some(nextPage), None, section)

ScriptNames == {"auto", "manual"}

InitClient ==
    /\ req = None /\ resp = None /\ tmdbCalls = << >>
    /\ genreCache = [m \in MediaTypes |-> None]
    /\ chain = << >> /\ jar = None /\ upstream = None /\ calls = << >>
    /\ NoFault /\ NoHelper
    /\ script \in ScriptNames
    /\ \E section \in Sections :
          btn = [section |-> section, page |-> 1, loading |-> FALSE,
                 disabled |-> FALSE, html |-> LabelOriginal, autoCount |-> 0]
    /\ skeleton = FALSE
    /\ grid = << >>
    /\ xhrs = << >>
    /\ hist = [exhausted |-> FALSE, sinceFail |-> None, autoStarted |-> 0,
               loaded |-> {}, last |-> "", upstreamFailed |-> FALSE]

serverVars == <<req, resp, chain, jar, upstream, genreCache, calls, tmdbCalls,
                faultVars, helperVars>>

\* triggerLoadMore($btn, isAuto) up to the request, on button state b (the
\* page holds the grid and the skeleton the button names)
TriggerLoadMore(b, isAuto) ==
    IF b.section = None \/ b.loading
    THEN /\ btn' = b
         /\ UNCHANGED <<skeleton, xhrs>>
    ELSE /\ btn' = [StartLoading(b) EXCEPT !.loading = TRUE]
         /\ skeleton' = TRUE
         /\ xhrs' = Append(xhrs, Xhr(b, isAuto))

\* the click handler of the script without setupAutoLoad, up to the request
ClickHandler ==
    IF btn.section = None
    THEN UNCHANGED <<btn, skeleton, xhrs>>
    ELSE /\ btn' = StartLoading(btn)
         /\ skeleton' = TRUE
         /\ xhrs' = Append(xhrs, Xhr(btn, FALSE))

\* the user clicks the button: a browser delivers no click event to a
\* disabled button
Click ==
    /\ ~btn.disabled
    /\ IF script = "auto" THEN TriggerLoadMore(btn, FALSE) ELSE ClickHandler
    /\ hist' = [hist EXCEPT !.sinceFail = None, !.last = "click"]
    /\ UNCHANGED <<script, grid, serverVars>>

\* the observer reports the button as intersecting (entries that are not
\* intersecting return at once)
Intersect ==
    /\ script = "auto"
    /\ IF btn.disabled \/ btn.loading \/ AutoCapReached(btn)
       THEN /\ hist' = [hist EXCEPT !.last = "intersect"]
            /\ UNCHANGED <<btn, skeleton, xhrs>>
       ELSE /\ TriggerLoadMore([btn EXCEPT !.autoCount = @ + 1], TRUE)
            /\ hist' = [hist EXCEPT !.last = "intersect", !.autoStarted =
                            IF Len(xhrs') > Len(xhrs) THEN @ + 1 ELSE @]
    /\ UNCHANGED <<script, grid, serverVars>>

\* the section API answers request i with 200: .done, then .always
ResponseDone ==
    \E i \in 1..Len(xhrs) :
        LET x == xhrs[i]
            r == SectionRequest(btn.section, x.page)
        IN  /\ SectionEndpoint(r.section) # None
            /\ \E data \in SectionOutcomes(x.page) :
                  LET res == SectionResponse(r, getRequestLang(r), data).body
                  IN  /\ btn' = AlwaysButton(DoneButton(btn, x, res))
                      /\ grid' = DoneGrid(grid, res)
                      /\ hist' = [hist EXCEPT
                            !.last = "done",
                            !.upstreamFailed = (data = None),
                            !.exhausted = @ \/ NoMoreData(res)
                                            \/ res.page >= res.total_pages,
                            !.loaded = IF NoMoreData(res) THEN @
                                       ELSE @ \cup {x.page}]
            /\ skeleton' = FALSE
            /\ xhrs' = RemoveAt(xhrs, i)
            /\ UNCHANGED <<script, serverVars>>

\* request i fails (the network, or an answer other than 200 such as the
\* 400 for an unknown section): .fail, then .always
ResponseFail ==
    \E i \in 1..Len(xhrs) :
        LET x == xhrs[i]
        IN  /\ btn' = AlwaysButton(FailButton(btn, x))
            /\ skeleton' = FALSE
            /\ xhrs' = RemoveAt(xhrs, i)
            /\ hist' = [hist EXCEPT !.last = "fail", !.sinceFail =
                            Some([page |-> x.prePage, cards |-> x.preCards,
                                  html |-> x.originalHtml])]
            /\ UNCHANGED <<script, grid, serverVars>>

NextClient == Click \/ Intersect \/ ResponseDone \/ ResponseFail

SpecClient == InitClient /\ [][NextClient]_vars

-----------------------------------------------------------------------------
(* Claims on the load-more control (SpecClient) *)

\* C8: under any interleaving of clicks, observer triggers and response
\* callbacks the control has at most one section-API request in flight, the
\* page a request asks for is the stored page plus one, no request asks for
\* a page that was loaded successfully before, and no page is appended to
\* the grid twice.
C8_RequestsNeverOverlap ==
    /\ Len(xhrs) <= 1
    /\ \A i \in 1..Len(xhrs) :
          /\ xhrs[i].page = btn.page + 1
          /\ xhrs[i].page \notin hist.loaded
    /\ \A i, j \in 1..Len(grid) : i # j => grid[i].page # grid[j].page

\* the request for page 3 is in flight after page 2 was loaded and appended
C8_Witness ==
    /\ Len(xhrs) = 1
    /\ Len(grid) = 1
    /\ hist.loaded = {2}
    /\ xhrs[1].page = 3

\* C9: once a response had an empty results list or a page that is at least
\* its total_pages, the control is disabled and stays so, and no request of
\* it is in flight from then on, whatever clicks and observer triggers
\* follow.
C9_DisabledForGood ==
    hist.exhausted => (btn.disabled /\ xhrs = << >>)

\* the last page was appended (a response with items whose page reached
\* total_pages) and the control shows that nothing is left
C9_Witness ==
    /\ hist.exhausted
    /\ Len(grid) = MaxPages - 1
    /\ btn.page = MaxPages
    /\ btn.html = LabelNoMore

\* C10: after the failure callbacks of a request have run and until the
\* user clicks again, the control is enabled with the label it had before
\* the request, its stored page is the one it had, its loading flag is
\* clear, the skeleton is hidden, the grid holds what it held, and no
\* request of the control is in flight.
C10_FailureRestores ==
    hist.sinceFail # None =>
        /\ ~btn.disabled
        /\ btn.html = hist.sinceFail[1].html
        /\ btn.html = LabelOriginal
        /\ btn.page = hist.sinceFail[1].page
        /\ ~btn.loading
        /\ ~skeleton
        /\ Len(grid) = hist.sinceFail[1].cards
        /\ xhrs = << >>

\* C11: the number of requests the observer has started for the control
\* never exceeds maxAuto (3), whatever clicks, observer reports and
\* responses occur, so that once it started that many a further observer
\* report starts none; a click delivered to the control (it is enabled and
\* names a section) after that still starts a request.
C11_AutoLoadsCapped ==
    /\ hist.autoStarted <= maxAuto
    /\ (hist.autoStarted = maxAuto /\ hist.last = "click"
            /\ btn.section # None) =>
          /\ Len(xhrs) = 1
          /\ ~xhrs[1].isAuto

\* the observer has started its three requests and a click has started a
\* fourth one
C11_Witness ==
    /\ hist.autoStarted = maxAuto
    /\ hist.last = "click"
    /\ Len(xhrs) = 1
    /\ ~xhrs[1].isAuto

-----------------------------------------------------------------------------
(* Claims on the genre route and the genre cache *)

\* the genre list the handler of the request worked with holds the
\* requested genre id
GenreIdListed ==
    \E i \in 1..Len(GenresOrEmpty(tmdbCalls[1].data)) :
        JsString(GenresOrEmpty(tmdbCalls[1].data)[i].id) = req[1].id

\* C12: a genre-page request whose genre id is not in the genre list of its
\* media type, or whose genre list could not be fetched, is answered 404:
\* not with a redirect and not with a rendered listing.
C12_UnknownGenreIs404 ==
    (resp # None /\ req[1].route = "genre" /\ ~GenreIdListed) =>
        resp[1].status = 404

\* the upstream call of this getGenres call failed
FillFailed(f) == calls[f].pc = "returned" /\ calls[f].got = Some(None)

\* the calls for the media type of c that started before c
EarlierCalls(c) ==
    {f \in StartedFor(calls[c].mediaType) : calls[f].seq < calls[c].seq}

\* call c started after failed fills only, with no fill in flight
AfterFailedFill(c) ==
    /\ calls[c].pc # "idle"
    /\ calls[c].alone
    /\ EarlierCalls(c) # {}
    /\ \A f \in EarlierCalls(c) : FillFailed(f)

\* C17: a getGenres call made after the fills of its media type failed,
\* when none of them is in flight any more, asks the upstream again, and
\* when the upstream answers with its genre list the call returns that
\* list, not the empty list the failed fill left.
C17_FailedFillNotCached ==
    \A c \in Callers :
        AfterFailedFill(c) =>
            /\ calls[c].fetched
            /\ \A l \in {LocalizedGenres(calls[c].lang)} :
                  calls[c].got = Some(Some([genres |-> Some(l)])) =>
                      calls[c].ret = Some(l)

-----------------------------------------------------------------------------
(* Errors thrown inside the handlers (SpecFault) *)

AsyncRoutes == {"home", "movie", "tv", "search", "genre", "year", "section", "sitemap"}
StaticRoutes == {"about", "privacy-policy", "terms", "dmca", "contact"}
FaultRoutes == AsyncRoutes \cup StaticRoutes \cup {"robots"}

\* the places of a handler where an error can arise: "lang" is the call of
\* getRequestLang, "params" the statements between it and the try block
\* (the (req.query.q || '').trim() of /search throws there when q is given
\* twice), "try" the try block, "render" the rendering of the view by
\* res.render, "body" the body of a handler that has no try block
ThrowPoints(route) ==
    IF route = "sitemap" THEN {"try"}
    ELSE IF route = "section" THEN {"lang", "params", "try"}
    ELSE IF route = "home" THEN {"lang", "try", "render"}
    ELSE IF route \in AsyncRoutes THEN {"lang", "params", "try", "render"}
    ELSE IF route \in StaticRoutes THEN {"lang", "body", "render"}
    ELSE {"body"}

\* what the catch block of the route sends with status 500
CatchMessage(route) ==
    CASE route = "home" -> "Error loading homepage"
      [] route = "movie" -> "Error loading movie detail"
      [] route = "tv" -> "Error loading TV detail"
      [] route = "search" -> "Error searching"
      [] route = "genre" -> "Error loading genre page"
      [] route = "year" -> "Error loading year page"
      [] route = "section" -> "Failed to fetch section"
      [] route = "sitemap" -> "Error generating sitemap"
      [] OTHER -> ""

\* the error handler Express falls back to, the application installing
\* none: status 500 and, unless NODE_ENV is production, the stack of the
\* error in the body
DefaultErrorHandler(rt) ==
    Some(Response(500, None, None, "",
                  IF rt.env = "production" THEN "Internal Server Error"
                                           ELSE "stack trace"))

\* what the client gets when the handler of the route meets an error at the
\* point: the catch block answers for the try block; res.render passes a
\* rendering error to next(err); an error outside the try block of an async
\* handler rejects the promise Express 4 ignores (no response is sent) and
\* Express 5 passes to next(err); a handler that is not async throws into
\* the router, which calls next(err)
FaultResponse(route, point, rt) ==
    IF point = "try"
    THEN Some(Response(500, None, None, "", CatchMessage(route)))
    ELSE IF point = "render" THEN DefaultErrorHandler(rt)
    ELSE IF route \in AsyncRoutes
    THEN IF rt.express = 4 THEN None ELSE DefaultErrorHandler(rt)
    ELSE DefaultErrorHandler(rt)

ExpressVersions == {4, 5}
NodeEnvs == {"production", "development"}

InitFault ==
    /\ req = None /\ resp = None /\ tmdbCalls = << >>
    /\ genreCache = [m \in MediaTypes |-> None]
    /\ chain = << >> /\ jar = None /\ upstream = None /\ calls = << >>
    /\ NoClient /\ NoHelper
    /\ \E e \in ExpressVersions, env \in NodeEnvs :
          runtime = [express |-> e, env |-> env]
    /\ fault = None

\* a request for the route arrives and its handler starts
Receive(route) ==
    /\ req = None
    /\ req' = Some(RouteRequest(route, "", << >>, << >>, None, None, None, None))
    /\ UNCHANGED <<resp, chain, jar, upstream, genreCache, calls, tmdbCalls,
                   clientVars, faultVars, helperVars>>

\* the handler meets an error at one of its points
Throw(point) ==
    /\ req # None /\ fault = None
    /\ point \in ThrowPoints(req[1].route)
    /\ fault' = Some([route |-> req[1].route, point |-> point])
    /\ resp' = FaultResponse(req[1].route, point, runtime)
    /\ UNCHANGED <<req, chain, jar, upstream, genreCache, calls, tmdbCalls,
                   runtime, clientVars, helperVars>>

NextFault ==
    \/ \E route \in FaultRoutes : Receive(route)
    \/ \E point \in {"lang", "params", "try", "render", "body"} : Throw(point)

SpecFault == InitFault /\ [][NextFault]_vars

\* bodies that tell nothing about the inside of the server
GenericBodies ==
    {CatchMessage(route) : route \in AsyncRoutes} \cup {"Internal Server Error"}

\* C13: whatever the route and whatever the point of its handler at which
\* an error arises (locale resolution and parameter parsing before the try
\* block and the rendering of the static pages included), the request is
\* answered, with status 500 and a body without internal detail.
C13_ErrorsBecomeGeneric500 ==
    fault # None =>
        /\ resp # None
        /\ resp[1].status = 500
        /\ resp[1].body \in GenericBodies

-----------------------------------------------------------------------------
(* Claims on the sitemap and the helpers *)

\* how many entries of the sitemap have this loc
EntriesAt(loc) ==
    Cardinality({i \in 1..Len(resp[1].body) : resp[1].body[i].loc = loc})

\* C14: whatever the three list calls return (a failure, no results, some
\* results, more results than the sample), the sitemap has exactly one
\* entry for the home URL, exactly one for each of the five static paths,
\* and for each upstream list one detail entry per result, 100 at most.
C14_SitemapEntries ==
    (resp # None /\ req[1].route = "sitemap") =>
        /\ resp[1].status = 200
        /\ EntriesAt(buildCanonical(<<"/">>)) = 1
        /\ \A i \in 1..Len(StaticPaths) : EntriesAt(buildCanonical(StaticPaths[i])) = 1
        /\ Len(StaticPaths) = 5
        /\ \A k \in 1..3 : Sampled(k) <= 100
        /\ Len(resp[1].body) = SitemapFixed + Sampled(1) + Sampled(2) + Sampled(3)

\* a sitemap built from one list longer than the sample, one failed call
\* and one short list
C14_Witness ==
    /\ resp # None /\ req[1].route = "sitemap"
    /\ Len(UpstreamResults(1)) > SitemapSample
    /\ Failed(2)
    /\ Len(UpstreamResults(3)) = 1
    /\ Len(resp[1].body) = SitemapFixed + SitemapSample + 1

-----------------------------------------------------------------------------
(* slugify and buildCanonical on their own (SpecHelpers) *)

\* the longest string handed to slugify, the longest path handed to
\* buildCanonical
MaxInputLen == 4
MaxPathLen == 3

\* a lower-case letter, an upper-case letter, a digit, a blank, a dash and
\* "!" for any other character
SlugInputChars == {"a", "B", "7", " ", "-", "!"}

TheMatrix1999 ==
    <<"T","h","e"," ","M","a","t","r","i","x"," ","(","1","9","9","9",")">>

SlugInputs == StrsUpTo(SlugInputChars, MaxInputLen) \cup {TheMatrix1999}

PathChars == {"/", "a", "?"}
Paths == StrsUpTo(PathChars, MaxPathLen)

\* values of SITE_URL: process.env.SITE_URL with no, one or two trailing
\* slashes, and the default http://localhost:${PORT}
Origins ==
    {<<"h","t","t","p",":","/","/","s","z">>,
     <<"h","t","t","p",":","/","/","s","z","/">>,
     <<"h","t","t","p",":","/","/","s","z","/","/">>,
     <<"h","t","t","p",":","/","/","l","o","c","a","l","h","o","s","t",":","3","0","0","0">>}

serverVarsOnly == <<req, resp, chain, jar, upstream, genreCache, calls, tmdbCalls>>

InitHelpers ==
    /\ req = None /\ resp = None /\ tmdbCalls = << >>
    /\ genreCache = [m \in MediaTypes |-> None]
    /\ chain = << >> /\ jar = None /\ upstream = None /\ calls = << >>
    /\ NoClient /\ NoFault /\ NoHelper

\* slugify(str)
CallSlugify(str) ==
    /\ arg = None
    /\ arg' = Some([fn |-> "slugify", str |-> str])
    /\ out' = Some(slugify(str))
    /\ UNCHANGED <<serverVarsOnly, clientVars, faultVars>>

\* buildCanonical(path) and buildCanonical('/' + path) in a process whose
\* SITE_URL is siteUrl
CallBuildCanonical(siteUrl, path) ==
    /\ arg = None
    /\ arg' = Some([fn |-> "buildCanonical", siteUrl |-> siteUrl, path |-> path])
    /\ out' = Some([url |-> buildCanonicalAt(siteUrl, path),
                    slashed |-> buildCanonicalAt(siteUrl, <<"/">> \o path)])
    /\ UNCHANGED <<serverVarsOnly, clientVars, faultVars>>

NextHelpers ==
    \/ \E str \in SlugInputs : CallSlugify(str)
    \/ \E siteUrl \in Origins, path \in Paths : CallBuildCanonical(siteUrl, path)

SpecHelpers == InitHelpers /\ [][NextHelpers]_vars

\* C15: slugify returns, for every input string, a string made of
\* lower-case ASCII letters, digits and dashes only, without two adjacent
\* dashes and without a dash at either end; slugify("") is "" and
\* slugify("The Matrix (1999)") is "the-matrix-1999".
C15_SlugShape ==
    (arg # None /\ arg[1].fn = "slugify") =>
        /\ out # None
        /\ LET slug == out[1]
           IN  /\ \A i \in 1..Len(slug) :
                     slug[i] \in Range(LowerAlpha) \cup DigitChars \cup {"-"}
               /\ \A i \in 1..(Len(slug) - 1) : ~(slug[i] = "-" /\ slug[i + 1] = "-")
               /\ slug # << >> => (slug[1] # "-" /\ slug[Len(slug)] # "-")
               /\ arg[1].str = << >> => slug = << >>
               /\ arg[1].str = TheMatrix1999 =>
                     slug = <<"t","h","e","-","m","a","t","r","i","x","-","1","9","9","9">>

\* a title with a leading blank, an upper-case letter and a run of two
\* other characters
C15_Witness ==
    /\ arg = Some([fn |-> "slugify", str |-> <<" ", "B", "!", " ">>])
    /\ out = Some(<<"b">>)

\* the site origin without its trailing slashes: the prefix of siteUrl that
\* does not end with a slash and is followed by slashes only
OriginBase(siteUrl) ==
    CHOOSE b \in {SubSeq(siteUrl, 1, k) : k \in 0..Len(siteUrl)} :
        /\ b = << >> \/ b[Len(b)] # "/"
        /\ \A i \in (Len(b) + 1)..Len(siteUrl) : siteUrl[i] = "/"

\* C16: for every site origin, with or without trailing slashes, and every
\* path p that does not start with a slash, buildCanonical(p) and
\* buildCanonical('/' + p) are the same string; every canonical URL is the
\* origin without its trailing slashes, then one slash, then the path (for
\* a path that starts with a slash, the path after that slash).
C16_CanonicalShape ==
    (arg # None /\ arg[1].fn = "buildCanonical") =>
        LET base == OriginBase(arg[1].siteUrl)
            path == arg[1].path
        IN  IF StartsWith(path, <<"/">>)
            THEN out[1].url = base \o <<"/">> \o Tail(path)
            ELSE /\ out[1].url = out[1].slashed
                 /\ out[1].url = base \o <<"/">> \o path

\* a relative path under an origin configured with two trailing slashes
C16_Witness ==
    /\ arg = Some([fn |-> "buildCanonical",
                   siteUrl |-> <<"h","t","t","p",":","/","/","s","z","/","/">>,
                   path |-> <<"a","/","a">>])
    /\ out[1].url = <<"h","t","t","p",":","/","/","s","z","/","a","/","a">>
    /\ out[1].slashed = out[1].url

-----------------------------------------------------------------------------
(* The load-more control composed with the section API *)

\* C18: when the upstream call behind a load-more request fails, so that
\* the section API answers 200 with no results and total_pages 1, the
\* callbacks leave the control enabled and not in its 'No more items'
\* state, for a later retry.
C18_TransientFailureKeepsControl ==
    (hist.last = "done" /\ hist.upstreamFailed) =>
        /\ ~btn.disabled
        /\ btn.html # LabelNoMore

====
